---- MODULE Spec2Model ----
(***************************************************************************)
(* Model of bin/generate_dashboard.py: the Dash application built by       *)
(* generate_dashboard().  The state is the set of component properties     *)
(* the callbacks read and write (dropdown value, relayoutData, threshold   *)
(* inputs, the figures and the table data) plus the exported file.  One    *)
(* action is one user event together with every callback that Dash fires   *)
(* for it (each callback whose Input is the changed property, and the      *)
(* callbacks fired in turn by an Output it writes).                        *)
(*                                                                         *)
(* Read lengths and thresholds are counted in units of 5000 bases, so the  *)
(* default thresholds 5000 and 10000 are 1 and 2.                          *)
(***************************************************************************)
EXTENDS Naturals, Sequences, FiniteSets, TLC

VARIABLES
    sample_dropdown,     \* "sample-dropdown".value: list of sample names
    relayoutData,        \* "scatter-plot-read-length-qscore".relayoutData
    mid_threshold,       \* "mid-threshold".value
    long_threshold,      \* "long-threshold".value
    scatter_fig,         \* rows plotted by "scatter-plot-read-length-qscore".figure
    filtered_data_table, \* "filtered-data-table".data
    violin_fig,          \* "violin-plot-qscore-read-length".figure
    read_ids_file,       \* content of the file written by export_read_ids
    plot_files,          \* names of the images the last plot export wrote
    export_button_children, \* "export-button".children
    read_ids_n_clicks    \* "export-read-ids-button".n_clicks: <<n>> or None

vars == <<sample_dropdown, relayoutData, mid_threshold, long_threshold,
          scatter_fig, filtered_data_table, violin_fig, read_ids_file,
          plot_files, export_button_children, read_ids_n_clicks>>

----------------------------------------------------------------------------
(* Bounds of the model *)

\* largest read length of a record, and largest value typed as a threshold
MaxLen == 3
\* largest mean quality of a record
MaxQ == 1

----------------------------------------------------------------------------
(* Values *)

Range(s) == {s[i] : i \in 1..Len(s)}

\* df["sample_name"].unique(): the sample names in order of first appearance
sample_names == <<"A", "B">>

SampleSet == Range(sample_names)

\* labels=[...] of both pd.cut calls
Labels == <<"short reads", "mid reads", "long reads">>

\* the category of a value outside every bin
NaN == "NaN"

\* pd.cut raises ValueError unless bins=[0, mid, long, inf] increase strictly
\* ("bins must increase monotonically" / "Bin edges must be unique")
CutRaises(mid, long) == ~(0 < mid /\ mid < long)

\* pd.cut(x, bins=[0, mid, long, inf], labels=Labels) with the default
\* right=True, include_lowest=False: the bins are (0, mid], (mid, long],
\* (long, inf]; a value in no bin is NaN.
Cut(x, mid, long) ==
    IF x <= 0 THEN NaN
    ELSE IF x <= mid THEN Labels[1]
    ELSE IF x <= long THEN Labels[2]
    ELSE Labels[3]

\* The rows read by pd.read_csv, columns renamed: one read per length
\* 0..MaxLen, the samples alternating.
ReadRow(i) ==
    [read_id        |-> i,
     sample_name    |-> sample_names[((i - 1) % Len(sample_names)) + 1],
     Read_Length    |-> i - 1,
     Average_QScore |-> ((i - 1) \div 2) % (MaxQ + 1)]

\* a row with its "Read Length Category" column
WithCategory(row, mid, long) ==
    [read_id              |-> row.read_id,
     sample_name          |-> row.sample_name,
     Read_Length          |-> row.Read_Length,
     Average_QScore       |-> row.Average_QScore,
     Read_Length_Category |-> Cut(row.Read_Length, mid, long)]

\* default of the parameter mid_threshold (5000 bases)
mid_threshold_default == 1
\* default of the parameter long_threshold (10000 bases)
long_threshold_default == 2

\* df after lines 55-76; __main__ calls generate_dashboard with the defaults
df ==
    [i \in 1..(MaxLen + 1) |->
        WithCategory(ReadRow(i), mid_threshold_default, long_threshold_default)]

\* frame[frame["sample_name"].isin(selected_samples)]
IsinSamples(frame, selected_samples) ==
    SelectSeq(frame, LAMBDA r : r.sample_name \in Range(selected_samples))

----------------------------------------------------------------------------
(* relayoutData: a dict from plotly's relayout keys to numbers.  None and  *)
(* the empty dict are both falsy and the callbacks only test truthiness    *)
(* and key membership, so None is the dict without keys.                   *)

NoRelayout == [k \in {} |-> 0]

XRange(x0, x1) ==
    [k \in {"xaxis.range[0]", "xaxis.range[1]"} |->
        IF k = "xaxis.range[0]" THEN x0 ELSE x1]

YRange(y0, y1) ==
    [k \in {"yaxis.range[0]", "yaxis.range[1]"} |->
        IF k = "yaxis.range[0]" THEN y0 ELSE y1]

\* a relayout event that carries no axis range (resize, autorange)
Autosize == [k \in {"autosize"} |-> 1]

\* end points a zoom drag can have on each axis
BrushX == 1..2
BrushY == 0..1

XRanges == {XRange(a, b) : a \in BrushX, b \in BrushX}
YRanges == {YRange(a, b) : a \in BrushY, b \in BrushY}

\* what plotly emits: a box zoom, a zoom along one axis, or no range at all
RelayoutPayloads ==
    {Autosize} \cup XRanges \cup YRanges
        \cup {x @@ y : x \in XRanges, y \in YRanges}

\* the lists the dropdown can hold: distinct sample names in click order
SampleSelections ==
    {s \in UNION {[1..n -> SampleSet] : n \in 0..Len(sample_names)} :
        \A i, j \in 1..Len(s) : i # j => s[i] # s[j]}

\* the names a callback request can carry as the dropdown value: the
\* callbacks take the list as it comes, without comparing it with options
RequestNames == SampleSet \cup {"Z"}

RequestSelections ==
    {s \in UNION {[1..n -> RequestNames] : n \in 0..Cardinality(RequestNames)} :
        \A i, j \in 1..Len(s) : i # j => s[i] # s[j]}

----------------------------------------------------------------------------
(* The callbacks.  `triggered` is callback_context.triggered as the list   *)
(* of its prop_ids; it is empty (falsy) on the initial call.               *)

\* mutant: pd.cut is reached before the empty selection is returned
ViolinRaises_CutBeforeEmptyCheck(mid, long, selected_samples) ==
    CutRaises(mid, long)

\* update_violin_plot_qscore_read_length raises (the ValueError of pd.cut):
\* Dash then leaves the Output as it was
ViolinRaises(mid, long, selected_samples) ==
    selected_samples # <<>> /\ CutRaises(mid, long)

\* px.violin(): a figure without data and without a height
EmptyViolin == [rows |-> <<>>, height |-> 0]

Max(a, b) == IF a >= b THEN a ELSE b

\* the figure update_violin_plot_qscore_read_length returns when it returns
update_violin_plot_qscore_read_length(mid, long, selected_samples) ==
    IF selected_samples = <<>> THEN EmptyViolin
    ELSE LET filtered_df == IsinSamples(df, selected_samples)
             cut == [i \in 1..Len(filtered_df) |->
                        WithCategory(filtered_df[i], mid, long)]
             num_categories ==
                 Cardinality({cut[i].Read_Length_Category : i \in 1..Len(cut)})
         IN [rows |-> cut, height |-> Max(300, 200 * num_categories)]

\* the rows of the figure update_graph returns
update_graph(selected_samples, relayout) ==
    LET filtered_df == IsinSamples(df, selected_samples)
    IN IF /\ DOMAIN relayout # {}
          /\ "xaxis.range[0]" \in DOMAIN relayout
          /\ "yaxis.range[0]" \in DOMAIN relayout
       THEN SelectSeq(filtered_df, LAMBDA r :
                /\ r.Read_Length >= relayout["xaxis.range[0]"]
                /\ r.Read_Length <= relayout["xaxis.range[1]"]
                /\ r.Average_QScore >= relayout["yaxis.range[0]"]
                /\ r.Average_QScore <= relayout["yaxis.range[1]"])
       ELSE filtered_df

\* lines 340-347: the zoom filter on the x axis
ZoomX(frame, relayout) ==
    IF "xaxis.range[0]" \in DOMAIN relayout /\ "xaxis.range[1]" \in DOMAIN relayout
    THEN SelectSeq(frame, LAMBDA r :
             /\ r.Read_Length >= relayout["xaxis.range[0]"]
             /\ r.Read_Length <= relayout["xaxis.range[1]"])
    ELSE frame

\* lines 349-354: the zoom filter on the y axis
ZoomY(frame, relayout) ==
    IF "yaxis.range[0]" \in DOMAIN relayout /\ "yaxis.range[1]" \in DOMAIN relayout
    THEN SelectSeq(frame, LAMBDA r :
             /\ r.Average_QScore >= relayout["yaxis.range[0]"]
             /\ r.Average_QScore <= relayout["yaxis.range[1]"])
    ELSE frame

\* mutant: the zoom is kept when the dropdown triggered the callback
ResetZoom_Never(relayout, triggered) == relayout

\* lines 332-338: the relayoutData the table callback goes on with
ResetZoom(relayout, triggered) ==
    IF triggered # <<>> /\ triggered[1] = "sample-dropdown.value"
    THEN NoRelayout
    ELSE relayout

\* mutant: the zoom filters df instead of the sample-filtered frame
update_filtered_table_ZoomOnDf(selected_samples, relayout, triggered) ==
    LET filtered_df == IsinSamples(df, selected_samples)
        zoom == ResetZoom(relayout, triggered)
    IN IF DOMAIN zoom # {}
       THEN ZoomY(ZoomX(df, zoom), zoom)
       ELSE filtered_df

\* the records update_filtered_table returns
update_filtered_table(selected_samples, relayout, triggered) ==
    LET filtered_df == IsinSamples(df, selected_samples)
        zoom == ResetZoom(relayout, triggered)
    IN IF DOMAIN zoom # {}
       THEN ZoomY(ZoomX(filtered_df, zoom), zoom)
       ELSE filtered_df

\* "sample-dropdown".options
options == [i \in 1..Len(sample_names) |->
               [label |-> sample_names[i], value |-> sample_names[i]]]

\* update_dropdown: the new dropdown value, or no_update
no_update == <<"no_update">>

\* mutant: Select All leaves out the last option
update_dropdown_DropsLastOption(triggered, opts) ==
    IF triggered = <<>> THEN no_update
    ELSE IF triggered[1] = "select-all-button.n_clicks"
         THEN [i \in 1..(Len(opts) - 1) |-> opts[i].value]
    ELSE IF triggered[1] = "deselect-all-button.n_clicks"
         THEN <<>>
    ELSE no_update

update_dropdown(triggered, opts) ==
    IF triggered = <<>> THEN no_update
    ELSE IF triggered[1] = "select-all-button.n_clicks"
         THEN [i \in 1..Len(opts) |-> opts[i].value]
    ELSE IF triggered[1] = "deselect-all-button.n_clicks"
         THEN <<>>
    ELSE no_update

\* "overview-table".data: set in the layout, Output of no callback
overview_table_data == df

\* "overview-table".derived_virtual_data: the rows left by the native filter
\* the user typed on the sample_name column ("" is no filter)
derived_virtual_data(filter_query) ==
    IF filter_query = "" THEN overview_table_data
    ELSE SelectSeq(overview_table_data, LAMBDA r : r.sample_name = filter_query)

NoFile == [written |-> FALSE, lines |-> <<>>]

\* the value export_read_ids returns to its Output, the button's n_clicks
None == <<>>

\* export_read_ids: the file at save_path afterwards ("" is no path given)
export_read_ids(n_clicks, rows, save_path, file) ==
    IF n_clicks > 0 /\ save_path # ""
    THEN [written |-> TRUE, lines |-> [i \in 1..Len(rows) |-> rows[i].read_id]]
    ELSE file

\* "export-button".children: the button text, with the dialog when there is one
ExportButtonLabel == [dialog |-> "", text |-> "Export Plots"]

ConfirmDialog ==
    [dialog |-> "No save path provided, skipping export.",
     text |-> "Export Plots"]

\* sep.join(names)
RECURSIVE Join(_, _)
Join(names, sep) ==
    IF names = <<>> THEN ""
    ELSE IF Len(names) = 1 THEN names[1]
    ELSE names[1] \o sep \o Join(Tail(names), sep)

selected_samples_str(selected_samples) ==
    IF selected_samples # <<>> THEN Join(selected_samples, "_")
    ELSE "all_samples"

\* the three file names, in the order of the write_image calls
PlotPaths(prefix) ==
    <<prefix \o "--qscore_read_length_scatter_plot.png",
      prefix \o "--qscore_read_length_violin_plot.png",
      prefix \o "--read_length_violin_plot.png">>

\* export_results: the children it returns and the images written.
\* images_written is the number of write_image calls that return before
\* one raises (3 when none does).
export_results(n_clicks, selected_samples, save_path, images_written, files) ==
    IF n_clicks > 0 /\ save_path = ""
    THEN [children |-> ConfirmDialog, files |-> files]
    ELSE IF n_clicks > 0
    THEN [children |-> ExportButtonLabel,
          files |-> SubSeq(PlotPaths(selected_samples_str(selected_samples)),
                           1, images_written)]
    ELSE [children |-> ExportButtonLabel, files |-> files]

----------------------------------------------------------------------------
(* State after the page has loaded: the layout's values, then the initial  *)
(* call of every callback (triggered is empty, update_dropdown returns     *)
(* no_update, export_read_ids has prevent_initial_call).                   *)

Init ==
    /\ sample_dropdown = sample_names
    /\ relayoutData = NoRelayout
    /\ mid_threshold = mid_threshold_default
    /\ long_threshold = long_threshold_default
    /\ scatter_fig = update_graph(sample_names, NoRelayout)
    /\ filtered_data_table = update_filtered_table(sample_names, NoRelayout, <<>>)
    /\ violin_fig = update_violin_plot_qscore_read_length(
                        mid_threshold_default, long_threshold_default, sample_names)
    /\ read_ids_file = NoFile
    /\ plot_files = <<>>
    /\ export_button_children = ExportButtonLabel
    /\ read_ids_n_clicks = <<0>>

\* The three callbacks with Input("sample-dropdown", "value"), fired when
\* that value is set by the user or by update_dropdown.
DropdownCallbacks(value) ==
    /\ violin_fig' =
           IF ViolinRaises(mid_threshold, long_threshold, value)
           THEN violin_fig
           ELSE update_violin_plot_qscore_read_length(
                    mid_threshold, long_threshold, value)
    /\ scatter_fig' = update_graph(value, relayoutData)
    /\ filtered_data_table' =
           update_filtered_table(value, relayoutData, <<"sample-dropdown.value">>)

\* the user adds or removes samples in the dropdown
SetSampleSelection(value) ==
    /\ sample_dropdown' = value
    /\ DropdownCallbacks(value)
    /\ UNCHANGED <<relayoutData, mid_threshold, long_threshold, read_ids_file>>
    /\ UNCHANGED <<plot_files, export_button_children, read_ids_n_clicks>>

\* a click on "Select All": update_dropdown, then the callbacks its Output
\* fires
SelectAll ==
    LET value == update_dropdown(<<"select-all-button.n_clicks">>, options)
    IN /\ value # no_update
       /\ sample_dropdown' = value
       /\ DropdownCallbacks(value)
       /\ UNCHANGED <<relayoutData, mid_threshold, long_threshold, read_ids_file>>
       /\ UNCHANGED <<plot_files, export_button_children, read_ids_n_clicks>>

\* a click on "Deselect All": update_dropdown, then the callbacks its Output
\* fires
DeselectAll ==
    LET value == update_dropdown(<<"deselect-all-button.n_clicks">>, options)
    IN /\ value # no_update
       /\ sample_dropdown' = value
       /\ DropdownCallbacks(value)
       /\ UNCHANGED <<relayoutData, mid_threshold, long_threshold, read_ids_file>>
       /\ UNCHANGED <<plot_files, export_button_children, read_ids_n_clicks>>

\* SetBrushRange with a violin plot that reads relayoutData: it keeps the
\* rows the zoomed scatter plot keeps
SetBrushRange_ViolinZoomed(payload) ==
    /\ relayoutData' = payload
    /\ scatter_fig' = update_graph(sample_dropdown, payload)
    /\ filtered_data_table' =
           update_filtered_table(sample_dropdown, payload,
               <<"scatter-plot-read-length-qscore.relayoutData">>)
    /\ violin_fig' =
           [violin_fig EXCEPT !.rows =
               SelectSeq(violin_fig.rows, LAMBDA r :
                   \E i \in 1..Len(update_graph(sample_dropdown, payload)) :
                       update_graph(sample_dropdown, payload)[i].read_id
                           = r.read_id)]
    /\ UNCHANGED <<sample_dropdown, mid_threshold, long_threshold,
                   read_ids_file>>
    /\ UNCHANGED <<plot_files, export_button_children, read_ids_n_clicks>>

\* the user zooms, pans or resizes the scatter plot
SetBrushRange(payload) ==
    /\ relayoutData' = payload
    /\ scatter_fig' = update_graph(sample_dropdown, payload)
    /\ filtered_data_table' =
           update_filtered_table(sample_dropdown, payload,
               <<"scatter-plot-read-length-qscore.relayoutData">>)
    /\ UNCHANGED <<sample_dropdown, mid_threshold, long_threshold, violin_fig,
                   read_ids_file>>
    /\ UNCHANGED <<plot_files, export_button_children, read_ids_n_clicks>>

\* the user selects points in the scatter plot (selectedData is not read)
SelectPoints ==
    /\ filtered_data_table' =
           update_filtered_table(sample_dropdown, relayoutData,
               <<"scatter-plot-read-length-qscore.selectedData">>)
    /\ UNCHANGED <<sample_dropdown, relayoutData, mid_threshold, long_threshold,
                   scatter_fig, violin_fig, read_ids_file>>
    /\ UNCHANGED <<plot_files, export_button_children, read_ids_n_clicks>>

\* the callback with the two threshold Inputs
ThresholdCallback(mid, long) ==
    violin_fig' =
        IF ViolinRaises(mid, long, sample_dropdown)
        THEN violin_fig
        ELSE update_violin_plot_qscore_read_length(mid, long, sample_dropdown)

\* the user types a number into "mid-threshold"
SetMidThreshold(value) ==
    /\ value # mid_threshold
    /\ mid_threshold' = value
    /\ ThresholdCallback(value, long_threshold)
    /\ UNCHANGED <<sample_dropdown, relayoutData, long_threshold, scatter_fig,
                   filtered_data_table, read_ids_file>>
    /\ UNCHANGED <<plot_files, export_button_children, read_ids_n_clicks>>

\* the user types a number into "long-threshold"
SetLongThreshold(value) ==
    /\ value # long_threshold
    /\ long_threshold' = value
    /\ ThresholdCallback(mid_threshold, value)
    /\ UNCHANGED <<sample_dropdown, relayoutData, mid_threshold, scatter_fig,
                   filtered_data_table, read_ids_file>>
    /\ UNCHANGED <<plot_files, export_button_children, read_ids_n_clicks>>

\* a click on "Export Read IDs"
ExportReadIds(filter_query, save_path) ==
    /\ read_ids_file' =
           export_read_ids(1, derived_virtual_data(filter_query), save_path,
                           read_ids_file)
    /\ read_ids_n_clicks' = None
    /\ UNCHANGED <<sample_dropdown, relayoutData, mid_threshold, long_threshold,
                   scatter_fig, filtered_data_table, violin_fig>>
    /\ UNCHANGED <<plot_files, export_button_children>>

\* a click on "Export Plots"
ExportPlots(save_path, images_written) ==
    LET result == export_results(1, sample_dropdown, save_path,
                                 images_written, plot_files)
    IN /\ export_button_children' = result.children
       /\ plot_files' = result.files
       /\ UNCHANGED <<sample_dropdown, relayoutData, mid_threshold,
                      long_threshold, scatter_fig, filtered_data_table,
                      violin_fig, read_ids_file, read_ids_n_clicks>>

\* callback_context.triggered of a call of update_filtered_table made for a
\* change of the dropdown value and a change of relayoutData together
BothTriggered ==
    {<<"sample-dropdown.value",
       "scatter-plot-read-length-qscore.relayoutData">>,
     <<"scatter-plot-read-length-qscore.relayoutData",
       "sample-dropdown.value">>}

\* the dropdown value and relayoutData have both changed when the callbacks
\* are called: each callback runs once, with both new values
SetSelectionAndBrush(value, payload, triggered) ==
    /\ value # sample_dropdown
    /\ payload # relayoutData
    /\ sample_dropdown' = value
    /\ relayoutData' = payload
    /\ violin_fig' =
           IF ViolinRaises(mid_threshold, long_threshold, value)
           THEN violin_fig
           ELSE update_violin_plot_qscore_read_length(
                    mid_threshold, long_threshold, value)
    /\ scatter_fig' = update_graph(value, payload)
    /\ filtered_data_table' = update_filtered_table(value, payload, triggered)
    /\ UNCHANGED <<mid_threshold, long_threshold, read_ids_file>>
    /\ UNCHANGED <<plot_files, export_button_children, read_ids_n_clicks>>

SavePaths == {"", "read_ids.txt"}

PlotDirs == {"", "plots"}

FilterQueries == {""} \cup SampleSet

\* the events that change what the views show
ViewEvents ==
    \/ \E value \in SampleSelections : SetSampleSelection(value)
    \/ SelectAll
    \/ DeselectAll
    \/ \E payload \in RelayoutPayloads : SetBrushRange(payload)
    \/ SelectPoints
    \/ \E value \in 0..MaxLen : SetMidThreshold(value)
    \/ \E value \in 0..MaxLen : SetLongThreshold(value)

\* the events of an export session: selections, zooms and exports, the
\* thresholds left as they are
ExportEvents ==
    \/ \E value \in SampleSelections : SetSampleSelection(value)
    \/ SelectAll
    \/ DeselectAll
    \/ \E payload \in RelayoutPayloads : SetBrushRange(payload)
    \/ \E q \in FilterQueries, path \in SavePaths : ExportReadIds(q, path)

\* the events of a plot export session: the selection comes from callback
\* requests, both exports are used, zoom and thresholds left as they are
PlotEvents ==
    \/ \E value \in RequestSelections : SetSampleSelection(value)
    \/ SelectAll
    \/ DeselectAll
    \/ \E path \in PlotDirs, n \in 0..Len(PlotPaths("")) : ExportPlots(path, n)
    \/ \E q \in FilterQueries, path \in SavePaths : ExportReadIds(q, path)

\* the events of a session in which selection and zoom changes can reach
\* the callbacks together, the thresholds left as they are
CycleEvents ==
    \/ \E value \in SampleSelections : SetSampleSelection(value)
    \/ \E payload \in RelayoutPayloads : SetBrushRange(payload)
    \/ SelectPoints
    \/ \E value \in SampleSelections, payload \in RelayoutPayloads,
          triggered \in BothTriggered :
              SetSelectionAndBrush(value, payload, triggered)

Next == ViewEvents \/ ExportEvents \/ PlotEvents \/ CycleEvents

\* every event
Spec == Init /\ [][Next]_vars

\* the view events alone (nothing is exported)
SpecViews == Init /\ [][ViewEvents]_vars

\* the export sessions
SpecExport == Init /\ [][ExportEvents]_vars

\* the plot export sessions
SpecPlots == Init /\ [][PlotEvents]_vars

\* the sessions with combined selection and zoom changes
SpecCycle == Init /\ [][CycleEvents]_vars

----------------------------------------------------------------------------
(* Vocabulary of the properties *)

\* the unbrushed view: the records of df whose sample is selected, in df order
UnbrushedView(selected_samples) ==
    SelectSeq(df, LAMBDA r :
        \E i \in 1..Len(selected_samples) : selected_samples[i] = r.sample_name)

\* a step is a sample-selection event
SampleSelectionEvent ==
    \/ \E value \in SampleSelections : SetSampleSelection(value)
    \/ SelectAll
    \/ DeselectAll

\* relayoutData holds a zoom that would narrow the table of the selection
ZoomNarrows ==
    ZoomY(ZoomX(UnbrushedView(sample_dropdown), relayoutData), relayoutData)
        # UnbrushedView(sample_dropdown)

\* the read_ids of a sequence of rows
ReadIds(rows) == {rows[i].read_id : i \in 1..Len(rows)}

----------------------------------------------------------------------------
(* C1..C10 *)

\* C1: after every sample-selection event (dropdown edit, Select All,
\* Deselect All), whatever relayoutData holds and also when the new value
\* equals the old one, the detail table holds the unbrushed view of the new
\* selection.
C1_SelectionClearsTableBrush ==
    [][SampleSelectionEvent =>
          filtered_data_table' = UnbrushedView(sample_dropdown')]_vars

\* C1 witness: a narrowing zoom is still stored in relayoutData, some sample
\* is selected, and the table shows the whole unbrushed view.
C1_Witness ==
    /\ sample_dropdown # <<>>
    /\ ZoomNarrows
    /\ filtered_data_table = UnbrushedView(sample_dropdown)

\* C2 (as claimed): after a sample-selection event no view is computed from
\* the new selection together with the zoom the event was to clear: the
\* scatter plot and the detail table both show the unbrushed view of the new
\* selection.
C2_SelectionAtomicForEveryView ==
    [][SampleSelectionEvent =>
          /\ scatter_fig' = UnbrushedView(sample_dropdown')
          /\ filtered_data_table' = UnbrushedView(sample_dropdown')]_vars

\* C3 (as claimed): with mid < long, a row of the violin plot whose length
\* equals mid is labelled mid, one whose length equals long is labelled
\* long; below mid is short, from mid up to long is mid, from long on is long.
C3_HalfOpenBuckets ==
    (/\ mid_threshold < long_threshold
     /\ ~ViolinRaises(mid_threshold, long_threshold, sample_dropdown)) =>
        \A i \in 1..Len(violin_fig.rows) :
            LET r == violin_fig.rows[i]
            IN /\ r.Read_Length < mid_threshold
                   => r.Read_Length_Category = "short reads"
               /\ (mid_threshold <= r.Read_Length /\ r.Read_Length < long_threshold)
                   => r.Read_Length_Category = "mid reads"
               /\ r.Read_Length >= long_threshold
                   => r.Read_Length_Category = "long reads"

\* C4 (as claimed): bucketing is total: every row of df (labelled at
\* start-up) and every row of the violin plot carries one of the three
\* labels, the rows of length 0 included.
C4_BucketingTotal ==
    /\ \A i \in 1..Len(df) : df[i].Read_Length_Category \in Range(Labels)
    /\ \A i \in 1..Len(violin_fig.rows) :
           violin_fig.rows[i].Read_Length_Category \in Range(Labels)

\* C5 (as claimed): an edit that makes mid >= long does not take effect: the
\* previous valid thresholds stay in force for labelling and the session
\* goes on.  So while such a pair is typed in, a sample-selection event still
\* redraws the violin plot: it shows the new selection, labelled with some
\* thresholds pd.cut accepts.
C5_InvalidThresholdsRejected ==
    [][(mid_threshold >= long_threshold /\ SampleSelectionEvent) =>
          \E mid \in 0..MaxLen, long \in 0..MaxLen :
              /\ ~CutRaises(mid, long)
              /\ violin_fig' =
                     update_violin_plot_qscore_read_length(
                         mid, long, sample_dropdown')]_vars

\* C6 (as claimed): a step that leaves the dropdown value, relayoutData and
\* the thresholds as they were computes the same detail table again,
\* whichever event the step is.
C6_TableIndependentOfTrigger ==
    [][(/\ sample_dropdown' = sample_dropdown
        /\ relayoutData' = relayoutData
        /\ mid_threshold' = mid_threshold
        /\ long_threshold' = long_threshold)
           => filtered_data_table' = filtered_data_table]_vars

\* C7: every record of the detail table is a record of df whose sample is
\* in the dropdown value, and the table keeps the order of df.
C7_BrushedWithinUnbrushed ==
    /\ \A i \in 1..Len(filtered_data_table) :
           /\ filtered_data_table[i] \in Range(df)
           /\ filtered_data_table[i].sample_name \in Range(sample_dropdown)
    /\ \A i, j \in 1..Len(filtered_data_table) :
           i < j => filtered_data_table[i].read_id < filtered_data_table[j].read_id

\* C7 witness: the zoom has narrowed the table to a non-empty proper part
\* of the unbrushed view of a selection that leaves a sample out.
C7_Witness ==
    /\ Len(sample_dropdown) = 1
    /\ filtered_data_table # <<>>
    /\ Len(filtered_data_table) < Len(UnbrushedView(sample_dropdown))

\* C8 (as claimed): the overview table holds exactly the records of the
\* selected samples, and a read-ID export writes read_ids of selected
\* samples only.
C8_OverviewFollowsSelection ==
    [][/\ overview_table_data = UnbrushedView(sample_dropdown')
       /\ (\E q \in FilterQueries, path \in SavePaths : ExportReadIds(q, path))
              => \A i \in 1..Len(read_ids_file'.lines) :
                     read_ids_file'.lines[i]
                         \in ReadIds(UnbrushedView(sample_dropdown'))]_vars

\* C9: after Deselect All the dropdown value is the empty list and the
\* scatter plot, the detail table and the violin plot are empty, whatever
\* the selection, relayoutData and thresholds were.
C9_DeselectAllEmptiesViews ==
    [][DeselectAll =>
          /\ sample_dropdown' = <<>>
          /\ scatter_fig' = <<>>
          /\ filtered_data_table' = <<>>
          /\ violin_fig'.rows = <<>>]_vars

\* C9 witness: nothing is selected and every view is empty while a zoom is
\* stored and the thresholds are ones pd.cut refuses.
C9_Witness ==
    /\ sample_dropdown = <<>>
    /\ scatter_fig = <<>> /\ filtered_data_table = <<>> /\ violin_fig.rows = <<>>
    /\ DOMAIN relayoutData # {}
    /\ CutRaises(mid_threshold, long_threshold)

\* C10: a Select All step is a step of selecting, in the dropdown, every
\* sample name of df (in order of first appearance): same dropdown value,
\* same views, the detail table without zoom.
C10_SelectAllIsSelectingAll ==
    [][SelectAll =>
          /\ SetSampleSelection(sample_names)
          /\ Range(sample_dropdown') = {df[i].sample_name : i \in 1..Len(df)}
          /\ filtered_data_table' = df]_vars

\* C10 witness: every sample is selected, the table shows all of df, and
\* relayoutData still holds a zoom that would narrow it.
C10_Witness ==
    /\ Range(sample_dropdown) = {df[i].sample_name : i \in 1..Len(df)}
    /\ filtered_data_table = df
    /\ ZoomNarrows

----------------------------------------------------------------------------
(* C11..C20 *)

\* a step is an edit of a threshold input that leaves mid < long
ValidThresholdEdit ==
    /\ \/ \E value \in 0..MaxLen : SetMidThreshold(value)
       \/ \E value \in 0..MaxLen : SetLongThreshold(value)
    /\ mid_threshold' < long_threshold'

\* C11 (as claimed): an edit of a threshold that leaves mid < long changes
\* labels only: the dropdown value and relayoutData stay as they were, and
\* the violin plot shows, before and after the edit, the records of the
\* samples selected in the dropdown.
C11_ThresholdEditChangesLabelsOnly ==
    [][ValidThresholdEdit =>
          /\ sample_dropdown' = sample_dropdown
          /\ relayoutData' = relayoutData
          /\ ReadIds(violin_fig'.rows) = ReadIds(UnbrushedView(sample_dropdown'))
          /\ ReadIds(violin_fig'.rows) = ReadIds(violin_fig.rows)]_vars

\* C12: a step that sets relayoutData (a zoom, pan or resize of the scatter
\* plot) leaves the dropdown value, both thresholds and the violin plot,
\* which does not read relayoutData, as they were.
C12_BrushEventFrame ==
    [][(\/ \E payload \in RelayoutPayloads : SetBrushRange(payload)
        \/ relayoutData' # relayoutData)
           => UNCHANGED <<sample_dropdown, mid_threshold, long_threshold,
                          violin_fig, read_ids_file>>]_vars

\* C12 witness: a zoom is stored that has narrowed the detail table, and
\* the violin plot still shows every record of the selected samples.
C12_Witness ==
    /\ sample_dropdown # <<>>
    /\ ZoomNarrows
    /\ Len(filtered_data_table) < Len(UnbrushedView(sample_dropdown))
    /\ ReadIds(violin_fig.rows) = ReadIds(UnbrushedView(sample_dropdown))

\* the payload has an axis range whose lower end is not below its upper end
DegenerateRange(payload) ==
    \/ /\ {"xaxis.range[0]", "xaxis.range[1]"} \subseteq DOMAIN payload
       /\ payload["xaxis.range[0]"] >= payload["xaxis.range[1]"]
    \/ /\ {"yaxis.range[0]", "yaxis.range[1]"} \subseteq DOMAIN payload
       /\ payload["yaxis.range[0]"] >= payload["yaxis.range[1]"]

\* C13 (as claimed): a zoom whose range is inverted or degenerate on an axis
\* is treated as no zoom: the scatter plot and the detail table show the
\* unbrushed view of the selection.
C13_DegenerateBrushIsNoBrush ==
    [][(\E payload \in RelayoutPayloads :
            DegenerateRange(payload) /\ SetBrushRange(payload))
           => /\ scatter_fig' = UnbrushedView(sample_dropdown')
              /\ filtered_data_table' = UnbrushedView(sample_dropdown')]_vars

\* C14 (as claimed): the dropdown value the callbacks work with holds only
\* sample names of df, and every image a plot export writes is named from
\* sample names of df alone.
C14_SelectionWithinDataset ==
    /\ Range(sample_dropdown) \subseteq {df[i].sample_name : i \in 1..Len(df)}
    /\ \A i \in 1..Len(plot_files) :
           \E selected \in SampleSelections :
               plot_files[i] = PlotPaths(selected_samples_str(selected))[i]

\* sorted(names), for the names a selection can hold
Sorted(names) ==
    SelectSeq(<<"A", "B", "Z">>, LAMBDA name : name \in Range(names))

\* C15 (as claimed): the images a plot export writes are named from the
\* sorted, "_"-joined names of the selected samples, so the names depend on
\* the set of selected samples and not on the order of the dropdown value.
C15_ExportNamesSorted ==
    [][(\E n \in 0..Len(PlotPaths("")) : ExportPlots("plots", n))
           => \A i \in 1..Len(plot_files') :
                  plot_files'[i] =
                      PlotPaths(selected_samples_str(Sorted(sample_dropdown)))[i]]_vars

\* C16 (as claimed): a click on either export button while no path is
\* given writes nothing, shows a warning, and leaves the selection, the
\* zoom, the thresholds and the views as they were.
C16_ExportsFailSoft ==
    [][(\/ \E n \in 0..Len(PlotPaths("")) : ExportPlots("", n)
        \/ \E q \in FilterQueries : ExportReadIds(q, ""))
           => /\ UNCHANGED <<plot_files, read_ids_file, sample_dropdown,
                             relayoutData, mid_threshold, long_threshold,
                             scatter_fig, filtered_data_table, violin_fig>>
              /\ export_button_children'.dialog # ""]_vars

\* C17 (as claimed): once a selection event has made the detail table show
\* the unbrushed view, a later update of the table that no new zoom causes
\* (a selection of points) leaves it showing the unbrushed view.
C17_InvalidatedZoomStaysInvalidated ==
    [][(SelectPoints /\ filtered_data_table = UnbrushedView(sample_dropdown))
           => filtered_data_table' = UnbrushedView(sample_dropdown')]_vars

\* C18 (as claimed): when the dropdown value and relayoutData have both
\* changed by the time the callbacks run, the selection change wins in
\* either order of callback_context.triggered: the detail table shows the
\* unbrushed view of the new selection.
C18_SelectionDominatesZoom ==
    [][(\E value \in SampleSelections, payload \in RelayoutPayloads,
           triggered \in BothTriggered :
               SetSelectionAndBrush(value, payload, triggered))
           => filtered_data_table' = UnbrushedView(sample_dropdown')]_vars

\* C19 (as claimed): after a zoom step the scatter plot and the detail
\* table show the same records, whatever the selection and whatever keys
\* the payload carries (the range of one axis only included).
C19_ScatterAndTableSameBrush ==
    [][(\E payload \in RelayoutPayloads : SetBrushRange(payload))
           => ReadIds(scatter_fig') = ReadIds(filtered_data_table')]_vars

\* the labels among short, mid and long that the records of the selected
\* samples get from the thresholds
LabelsInUse(selected_samples, mid, long) ==
    {Cut(UnbrushedView(selected_samples)[i].Read_Length, mid, long) :
        i \in 1..Len(UnbrushedView(selected_samples))} \cap Range(Labels)

\* C20 (as claimed): the height of the violin plot drawn for the current
\* selection and thresholds is max(300, 200 * k), k the number of labels
\* among short, mid and long carried by a record of a selected sample.
C20_ViolinHeight ==
    ~ViolinRaises(mid_threshold, long_threshold, sample_dropdown) =>
        violin_fig.height =
            Max(300, 200 * Cardinality(
                LabelsInUse(sample_dropdown, mid_threshold, long_threshold)))

====
